---- MODULE Spec2Model ----
(***************************************************************************)
(* Model of the weight-measurement HTTP service of src/src/main.rs: the    *)
(* two axum handlers create_weight_measurement and                         *)
(* get_weight_measurement_id, the MongoDB collection "Wheights" they write *)
(* and read, and the conversions on the way (f32 arithmetic of the derived *)
(* fields, chrono <-> BSON date-time, ObjectId <-> string).                *)
(*                                                                         *)
(* Each handler is an async fn; its steps are the stretches of code        *)
(* between two .await points, and handlers of different requests           *)
(* interleave at those points.  A panic unwinds the task of the request    *)
(* that raised it: that request gets no response, the server keeps         *)
(* serving the others.                                                     *)
(***************************************************************************)
EXTENDS Integers, Naturals, Sequences, FiniteSets, TLC

(***************************************************************************)
(* Bounds of the model.                                                    *)
(***************************************************************************)
\* number of request handlers that can be in flight at the same time
MaxReq == 2
\* number of ObjectIds the process generates (creates that reach line 104)
MaxOid == 2
\* largest weight and muscle mass (kg), and largest fat percentage, of the
\* payloads the derived fields are checked on
MaxKg == 16
MaxPct == 100

(***************************************************************************)
(* f32: IEEE-754 binary32, non-negative values.  A finite non-zero value   *)
(* is m * 2^e with a 24-bit significand 2^23 <= m < 2^24; zero is m = 0,   *)
(* e = 0.  Every operation rounds to nearest, ties to even, as the         *)
(* hardware does.  The operands the model feeds in keep one odd part of    *)
(* every product and the divisor's odd part below 2^7, so that every       *)
(* intermediate integer fits TLC's 32-bit integers and no exponent leaves  *)
(* the normal range.                                                       *)
(***************************************************************************)
Pow2(n) == 2 ^ n

Fin(m, e) == [k |-> "fin", m |-> m, e |-> e]
Inf == [k |-> "inf", m |-> 0, e |-> 0]
NaN == [k |-> "nan", m |-> 0, e |-> 0]
Zero == Fin(0, 0)

\* the exponent s (>= 0) of the largest power of two dividing n > 0
RECURSIVE TrailingZeros(_)
TrailingZeros(n) == IF n % 2 = 1 THEN 0 ELSE 1 + TrailingZeros(n \div 2)

\* the number of bits of n > 0
RECURSIVE BitLen(_)
BitLen(n) == IF n = 0 THEN 0 ELSE 1 + BitLen(n \div 2)

\* round-to-nearest-even of the positive rational (num / den) * 2^e
RoundRatio(num, den, e) ==
    LET \* shift so that the quotient has 24 or 25 bits
        sh == 24 + BitLen(den) - BitLen(num)
        n0 == IF sh >= 0 THEN num * Pow2(sh) ELSE num
        d0 == IF sh >= 0 THEN den ELSE den * Pow2(0 - sh)
        q0 == n0 \div d0
        \* a 25-bit quotient loses one more bit: halve by doubling the divisor
        big == q0 >= Pow2(24)
        d1 == IF big THEN 2 * d0 ELSE d0
        q == n0 \div d1
        r == n0 % d1
        up == (2 * r > d1) \/ (2 * r = d1 /\ q % 2 = 1)
        m == IF up THEN q + 1 ELSE q
        e1 == e - sh + (IF big THEN 1 ELSE 0)
    IN  IF m = Pow2(24) THEN Fin(Pow2(23), e1 + 1) ELSE Fin(m, e1)

\* the f32 nearest to the non-negative integer n
FromInt(n) == IF n = 0 THEN Zero ELSE RoundRatio(n, 1, 0)

\* odd part and exponent of a finite non-zero value: x = Odd(x) * 2^OddExp(x)
Odd(x) == x.m \div Pow2(TrailingZeros(x.m))
OddExp(x) == x.e + TrailingZeros(x.m)

\* a * b in f32 (line 116, line 117)
F32Mul(a, b) ==
    IF a.k = "nan" \/ b.k = "nan" THEN NaN
    ELSE IF a.k = "inf" \/ b.k = "inf"
         THEN IF a = Zero \/ b = Zero THEN NaN ELSE Inf
    ELSE IF a = Zero \/ b = Zero THEN Zero
    ELSE RoundRatio(Odd(a) * Odd(b), 1, OddExp(a) + OddExp(b))

\* a / b in f32 (line 116, line 117)
F32Div(a, b) ==
    IF a.k = "nan" \/ b.k = "nan" THEN NaN
    ELSE IF a.k = "inf" THEN IF b.k = "inf" THEN NaN ELSE Inf
    ELSE IF b.k = "inf" THEN Zero
    ELSE IF b = Zero THEN IF a = Zero THEN NaN ELSE Inf
    ELSE IF a = Zero THEN Zero
    ELSE RoundRatio(Odd(a), Odd(b), OddExp(a) - OddExp(b))


(***************************************************************************)
(* Strings are sequences of characters.  An ObjectId is its 12 bytes,      *)
(* written as 24 nibbles.                                                  *)
(***************************************************************************)
HexDigits == <<"0", "1", "2", "3", "4", "5", "6", "7",
               "8", "9", "a", "b", "c", "d", "e", "f">>
UpperHexDigits == <<"0", "1", "2", "3", "4", "5", "6", "7",
                    "8", "9", "A", "B", "C", "D", "E", "F">>

\* the length of the hex encoding of an ObjectId
OidHexLen == 24

\* ObjectId::to_hex, which is also ObjectId's Display (line 208)
ToHex(oid) == [i \in 1..OidHexLen |-> HexDigits[oid[i] + 1]]

\* the value of a hex digit of either case, -1 for any other character
HexVal(c) ==
    IF \E v \in 1..16 : HexDigits[v] = c
    THEN (CHOOSE v \in 1..16 : HexDigits[v] = c) - 1
    ELSE IF \E v \in 1..16 : UpperHexDigits[v] = c
    THEN (CHOOSE v \in 1..16 : UpperHexDigits[v] = c) - 1
    ELSE -1

\* ObjectId::parse_str (line 84): 24 hex digits of either case, or an error
ParseStr(s) ==
    IF Len(s) = OidHexLen /\ \A i \in 1..Len(s) : HexVal(s[i]) >= 0
    THEN [ok |-> TRUE, oid |-> [i \in 1..OidHexLen |-> HexVal(s[i])]]
    ELSE [ok |-> FALSE, oid |-> <<>>]

\* Display of Bson::ObjectId, which is what inserted_id.to_string() calls
\* (line 130): the hex digits wrapped in ObjectId("...")
BsonToString(oid) ==
    <<"O", "b", "j", "e", "c", "t", "I", "d", "(", "\"">> \o ToHex(oid) \o <<"\"", ")">>

\* ObjectId::default() = ObjectId::new() (line 104): 4 bytes of timestamp,
\* 5 bytes drawn once per process, a 3-byte counter that grows by one per id
NewObjectId(n) ==
    <<6, 5, 4, 15, 0, 1, 2, 3>> \o <<10, 11, 1, 2, 3, 4, 5, 6, 7, 8>>
        \o <<0, 0, 0, 0, n \div 16, n % 16>>

(***************************************************************************)
(* Date-times.  chrono's DateTime<Utc> is seconds since the epoch plus     *)
(* nanoseconds of the second; BSON's DateTime is milliseconds since the    *)
(* epoch, kept here as seconds plus milliseconds of the second.            *)
(***************************************************************************)
\* bson::DateTime::from_chrono (line 105): timestamp_millis()
FromChrono(d) == [secs |-> d.secs, ms |-> d.nsec \div 1000000]

\* bson::DateTime::to_chrono (line 209)
ToChrono(b) == [secs |-> b.secs, nsec |-> b.ms * 1000000]

(***************************************************************************)
(* Requests the clients send.                                              *)
(***************************************************************************)
\* WheightMeasurementInput (lines 138-150), as the Json extractor builds it
\* from a body whose numbers are the given integers
Payload(date, w, f, m) ==
    [date |-> date,
     wheight_kg |-> FromInt(w),
     imc |-> FromInt(24),
     fat_percentage |-> FromInt(f),
     water_percentage |-> FromInt(55),
     protein_percentage |-> FromInt(18),
     metabolism_kcal |-> FromInt(1800),
     visceral_fat_index |-> FromInt(8),
     muscle_kg |-> FromInt(m),
     bone_kg |-> FromInt(3),
     metabolic_age |-> 30]

\* the payloads clients send: the scenario of the documentation
\* (2024-01-01T00:00:00Z, 80 kg, 20 %, 60 kg) and a reading of weight 0 taken
\* at 2024-01-01T00:00:00.123456789Z
Payloads ==
    {Payload([secs |-> 1704067200, nsec |-> 0], 80, 20, 60),
     Payload([secs |-> 1704067200, nsec |-> 123456789], 0, 20, 60)}

\* payloads of every weight, fat percentage and muscle mass up to the bounds
WidePayloads ==
    {Payload([secs |-> 1704067200, nsec |-> 0], w, f, m) :
        w \in 0..MaxKg, f \in 0..MaxPct, m \in 0..MaxKg}

NoPayload == CHOOSE p \in Payloads : TRUE

\* request bodies: JSON of a payload, JSON that is not syntactically valid,
\* JSON that lacks a field or has one of the wrong type
Bodies ==
    [parse : {"ok"}, p : Payloads] \cup [parse : {"syntax", "data"}, p : {NoPayload}]

\* path parameters of GET that a client can make up: ids the process
\* generates (now or later), one it never generates, an upper-case spelling,
\* and a string that is not 24 hex digits
PathIds ==
    {ToHex(NewObjectId(n)) : n \in 0..MaxOid}
    \cup {[i \in 1..OidHexLen |-> UpperHexDigits[NewObjectId(0)[i] + 1]]}
    \cup {<<"x", "y", "z">>}

(***************************************************************************)
(* Configuration and the gateway.                                          *)
(***************************************************************************)
\* the process environment after main's set_var (line 45)
Env == [name \in {"mongoDb.connectionString"} |->
          [scheme |-> "mongodb",
           rest |-> "127.0.0.1:27017/?directConnection=true&serverSelectionTimeoutMS=2000"]]

\* read_env_var (lines 70-75)
read_env_var(env_name, default) ==
    IF env_name \in DOMAIN Env THEN Env[env_name] ELSE default

\* get_collection (lines 54-68): ClientOptions::parse fails on a string
\* without a mongodb scheme; building the client does no I/O
get_collection ==
    LET mongodb_conn_string ==
            read_env_var("mongoDb.connectionString",
                         [scheme |-> "", rest |-> "localhost:4666"])
    IN  mongodb_conn_string.scheme \in {"mongodb", "mongodb+srv"}

\* find_one without its filter: any document matches
FindOneUnfiltered(coll, oid) == coll

\* Collection::find_one with the filter { _id: oid } (line 86): the
\* documents that match (none or one)
FindOne(coll, oid) == {d \in coll : d._id = oid}

\* an insert that replaces what the collection holds
InsertOneReplacing(coll, m) == {m}

\* Collection::insert_one (line 125) on a collection without that _id
InsertOne(coll, m) == coll \cup {m}

(***************************************************************************)
(* The measurement service.                                                *)
(***************************************************************************)
\* the entity with fat_kg computed from muscle_kg instead of fat_percentage
MeasurementWrongField(oid, payload) ==
    [_id |-> oid,
     date |-> FromChrono(payload.date),
     wheight_kg |-> payload.wheight_kg,
     imc |-> payload.imc,
     fat_percentage |-> payload.fat_percentage,
     water_percentage |-> payload.water_percentage,
     protein_percentage |-> payload.protein_percentage,
     metabolism_kcal |-> payload.metabolism_kcal,
     visceral_fat_index |-> payload.visceral_fat_index,
     muscle_kg |-> payload.muscle_kg,
     bone_kg |-> payload.bone_kg,
     metabolic_age |-> payload.metabolic_age,
     fat_kg |-> F32Mul(payload.wheight_kg,
                       F32Div(payload.muscle_kg, FromInt(100))),
     muscle_percentage |-> F32Mul(FromInt(100),
                                  F32Div(payload.muscle_kg, payload.wheight_kg))]

\* the WheightMeasurementEntity create builds (lines 103-118)
Measurement(oid, payload) ==
    [_id |-> oid,
     date |-> FromChrono(payload.date),
     wheight_kg |-> payload.wheight_kg,
     imc |-> payload.imc,
     fat_percentage |-> payload.fat_percentage,
     water_percentage |-> payload.water_percentage,
     protein_percentage |-> payload.protein_percentage,
     metabolism_kcal |-> payload.metabolism_kcal,
     visceral_fat_index |-> payload.visceral_fat_index,
     muscle_kg |-> payload.muscle_kg,
     bone_kg |-> payload.bone_kg,
     metabolic_age |-> payload.metabolic_age,
     fat_kg |-> F32Mul(payload.wheight_kg,
                       F32Div(payload.fat_percentage, FromInt(100))),
     muscle_percentage |-> F32Mul(FromInt(100),
                                  F32Div(payload.muscle_kg, payload.wheight_kg))]

\* WheightMeasurementOutput::from_entity (lines 206-229)
from_entity(entity) ==
    [id |-> ToHex(entity._id),
     date |-> ToChrono(entity.date),
     wheight_kg |-> entity.wheight_kg,
     imc |-> entity.imc,
     fat_percentage |-> entity.fat_percentage,
     water_percentage |-> entity.water_percentage,
     protein_percentage |-> entity.protein_percentage,
     metabolism_kcal |-> entity.metabolism_kcal,
     visceral_fat_index |-> entity.visceral_fat_index,
     muscle_kg |-> entity.muscle_kg,
     bone_kg |-> entity.bone_kg,
     metabolic_age |-> entity.metabolic_age,
     fat_kg |-> entity.fat_kg,
     muscle_percentage |-> entity.muscle_percentage,
     wheight_kg_diff |-> Zero,
     fat_percentage_diff |-> Zero,
     muscle_kg_diff |-> Zero,
     bone_kg_diff |-> Zero,
     fat_kg_diff |-> Zero,
     muscle_percentage_diff |-> Zero]

NoResp == [status |-> 0, body |-> [message |-> ""]]

\* get_by_id with the wrong status on the None arm
GetResponseNoneOk(result) ==
    IF result = {}
    THEN [status |-> 200, body |-> [message |-> "Not Found"]]
    ELSE [status |-> 200, body |-> from_entity(CHOOSE d \in result : TRUE)]

\* the response of get_by_id to the result of find_one (lines 91-94)
GetResponse(result) ==
    IF result = {}
    THEN [status |-> 404, body |-> [message |-> "Not Found"]]
    ELSE [status |-> 200, body |-> from_entity(CHOOSE d \in result : TRUE)]

\* the response of create to the result of insert_one (lines 130-133)
CreateResponse(inserted_id) ==
    [status |-> 201, body |-> [id |-> BsonToString(inserted_id)]]

\* the Json extractor's rejection of a body (line 100): 400 for JSON that
\* does not parse, 422 for JSON that is not a WheightMeasurementInput
JsonRejection(body) ==
    [status |-> IF body.parse = "syntax" THEN 400 ELSE 422,
     body |-> [message |-> body.parse]]


(***************************************************************************)
(* State.                                                                  *)
(***************************************************************************)
Req == 1..MaxReq

VARIABLES
    docs,       \* the documents of collection "Wheights" of database "fabdev"
    nextOid,    \* how many ObjectIds the process has generated
    pc,         \* per request: where its handler is
    kind,       \* per request: "create", "get" or "none"
    body,       \* per create request: the request body
    path,       \* per get request: the id of the path
    local,      \* per request: the handler's locals (measurement, parsed id)
    gw,         \* per request: the gateway steps it has performed
    fail,       \* per request: what aborted its handler, "" if nothing
    resp,       \* per request: the response sent
    created     \* the number of creates answered with 201

vars == <<docs, nextOid, pc, kind, body, path, local, gw, fail, resp, created>>

NoBody == [parse |-> "syntax", p |-> NoPayload]
NoLocal == [oid |-> <<>>]

Init ==
    /\ docs = {}
    /\ nextOid = 0
    /\ pc = [r \in Req |-> "idle"]
    /\ kind = [r \in Req |-> "none"]
    /\ body = [r \in Req |-> NoBody]
    /\ path = [r \in Req |-> <<>>]
    /\ local = [r \in Req |-> NoLocal]
    /\ gw = [r \in Req |-> 0]
    /\ fail = [r \in Req |-> ""]
    /\ resp = [r \in Req |-> NoResp]
    /\ created = 0

\* the handler of request r panics: the request's task unwinds and drops
\* the handler's locals, and the client gets no response
Panic(r, cause) ==
    /\ pc' = [pc EXCEPT ![r] = "panicked"]
    /\ fail' = [fail EXCEPT ![r] = cause]
    /\ local' = [local EXCEPT ![r] = NoLocal]
    /\ resp' = resp

\* the handler of request r returns a response
Respond(r, response) ==
    /\ pc' = [pc EXCEPT ![r] = "done"]
    /\ resp' = [resp EXCEPT ![r] = response]
    /\ local' = [local EXCEPT ![r] = NoLocal]
    /\ fail' = fail

(***************************************************************************)
(* POST /weight/measurement (lines 97-134).                                *)
(***************************************************************************)
\* a POST arrives; the Json extractor parses the body (line 100); on
\* success the handler builds the measurement (lines 103-118), gets the
\* collection (lines 120-123; get_collection does no I/O for a mongodb://
\* connection string, so its awaits do not suspend) and sends insert_one
\* (line 125)
CreateStartFrom(r, bodies) ==
    /\ pc[r] = "idle"
    /\ \E b \in bodies :
        /\ kind' = [kind EXCEPT ![r] = "create"]
        /\ body' = [body EXCEPT ![r] = b]
        /\ IF b.parse # "ok"
           THEN /\ Respond(r, JsonRejection(b))
                /\ UNCHANGED <<nextOid, gw>>
           ELSE /\ nextOid < MaxOid
                /\ nextOid' = nextOid + 1
                /\ gw' = [gw EXCEPT ![r] = 1]
                /\ IF get_collection
                   THEN /\ local' = [local EXCEPT ![r] =
                                        Measurement(NewObjectId(nextOid), b.p)]
                        /\ pc' = [pc EXCEPT ![r] = "c_insert"]
                        /\ UNCHANGED <<resp, fail>>
                   ELSE Panic(r, "open")
    /\ UNCHANGED <<docs, path, created>>

CreateStart(r) == CreateStartFrom(r, Bodies)

\* the first POST an empty store receives, with any of the wide payloads
CreateFirst(r) ==
    /\ nextOid = 0
    /\ CreateStartFrom(r, [parse : {"ok"}, p : WidePayloads])

\* insert_one returns (lines 125-128), with the document stored or with an
\* error (server unreachable, duplicate _id), and the handler answers
\* (lines 130-133)
CreateInsert(r) ==
    /\ pc[r] = "c_insert"
    /\ gw' = [gw EXCEPT ![r] = gw[r] + 1]
    /\ \E answered \in BOOLEAN :
        IF answered /\ \A d \in docs : d._id # local[r]._id
        THEN /\ docs' = InsertOne(docs, local[r])
             /\ created' = created + 1
             /\ Respond(r, CreateResponse(local[r]._id))
        ELSE /\ Panic(r, "insert")
             /\ UNCHANGED <<docs, created>>
    /\ UNCHANGED <<nextOid, kind, body, path>>

(***************************************************************************)
(* GET /weight/measurement/:id (lines 78-95).                              *)
(***************************************************************************)
\* a GET arrives, for an id the client made up or one a create answered
\* with; the handler gets the collection (lines 79-82), parses the id and
\* unwraps it (line 84) and sends find_one (line 86)
GetStart(r) ==
    /\ pc[r] = "idle"
    /\ \E id \in PathIds \cup {resp[s].body.id : s \in {t \in Req : resp[t].status = 201}} :
        /\ kind' = [kind EXCEPT ![r] = "get"]
        /\ path' = [path EXCEPT ![r] = id]
        /\ gw' = [gw EXCEPT ![r] = 1]
        /\ IF ~get_collection
           THEN Panic(r, "open")
           ELSE IF ~ParseStr(id).ok
           THEN Panic(r, "bad_id")
           ELSE /\ local' = [local EXCEPT ![r] = [oid |-> ParseStr(id).oid]]
                /\ pc' = [pc EXCEPT ![r] = "g_find"]
                /\ UNCHANGED <<resp, fail>>
    /\ UNCHANGED <<docs, nextOid, body, created>>

\* find_one returns (lines 86-89), with its result or with an error (server
\* unreachable), and the handler answers (lines 91-94)
GetFind(r) ==
    /\ pc[r] = "g_find"
    /\ gw' = [gw EXCEPT ![r] = gw[r] + 1]
    /\ \E answered \in BOOLEAN :
        IF answered
        THEN Respond(r, GetResponse(FindOne(docs, local[r].oid)))
        ELSE Panic(r, "find")
    /\ UNCHANGED <<docs, nextOid, kind, body, path, created>>

(***************************************************************************)
(* The environment.                                                        *)
(***************************************************************************)
\* the client of a finished request goes away; another request can come
Recycle(r) ==
    /\ pc[r] \in {"done", "panicked"}
    /\ pc' = [pc EXCEPT ![r] = "idle"]
    /\ kind' = [kind EXCEPT ![r] = "none"]
    /\ body' = [body EXCEPT ![r] = NoBody]
    /\ path' = [path EXCEPT ![r] = <<>>]
    /\ gw' = [gw EXCEPT ![r] = 0]
    /\ fail' = [fail EXCEPT ![r] = ""]
    /\ resp' = [resp EXCEPT ![r] = NoResp]
    /\ UNCHANGED <<docs, nextOid, local, created>>

Next ==
    \/ \E r \in Req : CreateStart(r)
    \/ \E r \in Req : CreateInsert(r)
    \/ \E r \in Req : GetStart(r)
    \/ \E r \in Req : GetFind(r)
    \/ \E r \in Req : Recycle(r)

Spec == Init /\ [][Next]_vars

\* one client that stores one measurement of any of the wide payloads in an
\* empty store and reads it back
NextDerived ==
    \/ CreateFirst(1)
    \/ CreateInsert(1)
    \/ GetStart(1)
    \/ GetFind(1)
    \/ Recycle(1)

SpecDerived == Init /\ [][NextDerived]_vars

(***************************************************************************)
(* Properties.                                                             *)
(***************************************************************************)
IsCreate(r) == kind[r] = "create"
IsGet(r) == kind[r] = "get"
Finished(r) == pc[r] \in {"done", "panicked"}
Created(r) == IsCreate(r) /\ pc[r] = "done" /\ resp[r].status = 201
Found(r) == IsGet(r) /\ pc[r] = "done" /\ resp[r].status = 200
StoreFailures == {"open", "insert", "find"}

\* the fields a payload and an output have in common
InputFields ==
    {"date", "wheight_kg", "imc", "fat_percentage", "water_percentage",
     "protein_percentage", "metabolism_kcal", "visceral_fat_index",
     "muscle_kg", "bone_kg", "metabolic_age"}

\* C1: a get of exactly the id string a successful create returned (a get
\* can only be sent that string after the create answered with it), which
\* the store did not fail, answers 200 with the payload's input fields.
RoundTrip ==
    \A r, s \in Req :
        (/\ Created(r)
         /\ IsGet(s) /\ Finished(s)
         /\ path[s] = resp[r].body.id
         /\ fail[s] \notin StoreFailures)
        => /\ Found(s)
           /\ \A f \in InputFields : resp[s].body[f] = body[r].p[f]

\* C2: the id a successful create answers with is the 24-hex-digit encoding
\* of the _id of the document that create stored: the string get_by_id
\* reports as Output.id for it, and one that get_by_id can parse.
CreatedIdIsPlainHex ==
    \A r \in Req :
        Created(r) =>
            \E d \in docs :
                /\ d = Measurement(d._id, body[r].p)
                /\ resp[r].body.id = ToHex(d._id)
                /\ resp[r].body.id = from_entity(d).id
                /\ ParseStr(resp[r].body.id).ok

\* C3: when find_one answers a get whose id is well formed and is the _id of
\* no stored document, the get is answered 404 {"message": "Not Found"}:
\* not 200, and the handler is not aborted.
NotFoundIs404 ==
    [][\A r \in Req :
          (/\ pc[r] = "g_find" /\ pc'[r] # "g_find"
           /\ fail'[r] # "find"
           /\ ParseStr(path[r]).ok
           /\ \A d \in docs : d._id # ParseStr(path[r]).oid)
          => /\ pc'[r] = "done"
             /\ resp'[r] = [status |-> 404, body |-> [message |-> "Not Found"]]]_vars

\* a get of an unknown id was answered 404 after documents were stored
NotFoundSeen ==
    \E r \in Req :
        /\ IsGet(r) /\ pc[r] = "done" /\ resp[r].status = 404
        /\ ParseStr(path[r]).ok
        /\ docs # {}
        /\ \A d \in docs : d._id # ParseStr(path[r]).oid

\* C4: a get whose id is not a valid ObjectId encoding is answered 400 and
\* its handler is not aborted.
MalformedIdIs400 ==
    \A r \in Req :
        (IsGet(r) /\ Finished(r) /\ ~ParseStr(path[r]).ok)
        => (pc[r] = "done" /\ resp[r].status = 400)

\* C5: a request that fails validation (a body the Json extractor rejects,
\* an id that does not parse) has performed no gateway step.
ValidationBeforeStore ==
    \A r \in Req :
        (\/ IsCreate(r) /\ pc[r] = "done" /\ resp[r].status \in {400, 422}
         \/ IsGet(r) /\ Finished(r) /\ ~ParseStr(path[r]).ok)
        => gw[r] = 0

\* C6: a request whose store step failed (opening the collection, insert,
\* find) is answered 500 or 503; its handler is not aborted.
StoreFailureIsAnswered ==
    \A r \in Req :
        fail[r] \in StoreFailures
        => (pc[r] = "done" /\ resp[r].status \in {500, 503})

\* the f32 nearest to the exact value of a * b / c (a, b, c finite, c # 0):
\* the value itself when it is an f32
NearestTo(a, b, c) ==
    IF a = Zero \/ b = Zero THEN Zero
    ELSE RoundRatio(Odd(a) * Odd(b), Odd(c), OddExp(a) + OddExp(b) - OddExp(c))

\* the distance of two non-negative f32 values in units of the last place
\* of the smaller one; 99 when they are further apart than a binade
UlpsApart(x, y) ==
    IF x.k # "fin" \/ y.k # "fin" THEN 99
    ELSE IF x = Zero \/ y = Zero THEN (IF x = y THEN 0 ELSE 99)
    ELSE IF x.e = y.e THEN (IF x.m >= y.m THEN x.m - y.m ELSE y.m - x.m)
    ELSE IF x.e = y.e + 1 THEN 2 * x.m - y.m
    ELSE IF y.e = x.e + 1 THEN 2 * y.m - x.m
    ELSE 99

\* the outputs of answered gets carry the stored derived fields
DerivedReadBack ==
    \A r \in Req :
        Found(r) =>
            \E d \in docs :
                /\ d._id = ParseStr(path[r]).oid
                /\ resp[r].body.fat_kg = d.fat_kg
                /\ resp[r].body.muscle_percentage = d.muscle_percentage

\* C7 as stated: every stored document of non-zero weight has fat_kg equal
\* to weight_kg * fat_percentage / 100 and muscle_percentage equal to
\* 100 * muscle_kg / weight_kg (the f32 that is, or is nearest to, the
\* exact value), and get returns the stored values.
DerivedExact ==
    /\ \A d \in docs :
          d.wheight_kg # Zero =>
              /\ d.fat_kg = NearestTo(d.wheight_kg, d.fat_percentage, FromInt(100))
              /\ d.muscle_percentage = NearestTo(FromInt(100), d.muscle_kg, d.wheight_kg)
    /\ DerivedReadBack

\* C7 amended: every stored document of non-zero weight has fat_kg and
\* muscle_percentage within 2 units in the last place of the f32 nearest to
\* weight_kg * fat_percentage / 100 and to 100 * muscle_kg / weight_kg, and
\* get returns the stored values.
DerivedWithinTolerance ==
    /\ \A d \in docs :
          d.wheight_kg # Zero =>
              /\ UlpsApart(d.fat_kg,
                           NearestTo(d.wheight_kg, d.fat_percentage, FromInt(100))) <= 2
              /\ UlpsApart(d.muscle_percentage,
                           NearestTo(FromInt(100), d.muscle_kg, d.wheight_kg)) <= 2
    /\ DerivedReadBack

\* a document of non-zero weight whose derived fields are not the exactly
\* rounded ones was stored and read back
DerivedSeen ==
    \E r \in Req : \E d \in docs :
        /\ Found(r)
        /\ d._id = ParseStr(path[r]).oid
        /\ d.wheight_kg # Zero
        /\ d.muscle_percentage # NearestTo(FromInt(100), d.muscle_kg, d.wheight_kg)
        /\ resp[r].body.muscle_percentage = d.muscle_percentage

\* C8: the store is append-only under every interleaving: a create answered
\* 201 added exactly one document whose _id no stored document had, no
\* other step changes the store, and the number of stored documents is the
\* number of creates answered 201.
AppendOnlyStore ==
    /\ [](/\ Cardinality(docs) = created
          /\ \A d, e \in docs : d._id = e._id => d = e)
    /\ [][/\ docs \subseteq docs'
          /\ \A r \in Req :
                (pc[r] = "c_insert" /\ pc'[r] = "done")
                => /\ resp'[r].status = 201
                   /\ created' = created + 1
                   /\ \E d \in docs' \ docs :
                        /\ docs' = docs \cup {d}
                        /\ \A e \in docs : e._id # d._id
          /\ (\A r \in Req : ~(pc[r] = "c_insert" /\ pc'[r] = "done"))
                => (docs' = docs /\ created' = created)]_vars

\* two creates have been answered and a get is answered while another
\* request is in flight
AppendSeen ==
    /\ Cardinality(docs) = 2
    /\ created = 2
    /\ \E r, s \in Req : Found(r) /\ pc[s] \in {"c_insert", "g_find"}

\* C9: two answered gets of the same id carry the same status and body,
\* unless one was answered 404 and the other 200; a 200 reports the
\* document stored under that id, which stays stored as reported.
GetIdempotent ==
    /\ \A r, s \in Req :
          (/\ IsGet(r) /\ pc[r] = "done"
           /\ IsGet(s) /\ pc[s] = "done"
           /\ path[r] = path[s])
          => \/ resp[r] = resp[s]
             \/ {resp[r].status, resp[s].status} = {200, 404}
    /\ \A r \in Req :
          Found(r) =>
              \E d \in docs :
                  /\ d._id = ParseStr(path[r]).oid
                  /\ resp[r].body = from_entity(d)

\* two gets of the same id were answered alike while the store held
\* another document too
IdempotentSeen ==
    \E r, s \in Req :
        /\ r # s
        /\ Found(r) /\ Found(s)
        /\ path[r] = path[s]
        /\ resp[r] = resp[s]
        /\ Cardinality(docs) = 2

\* C10: every stored document has a non-zero weight.
StoredWeightNonZero ==
    \A d \in docs : d.wheight_kg # Zero
====
